---- MODULE Spec2Model ----
(***************************************************************************)
(* Model of the awesome-list workflow: src/src/config.py (configuration    *)
(* constants and file helpers), src/src/agent.py (AwesomeListAgent),       *)
(* src/src/cli.py (one-shot commands) and src/main.py (interactive loop).  *)
(*                                                                         *)
(* Python values are modelled as follows.  A str is a sequence of          *)
(* characters; a file name is a sequence of tokens (".md" is one token);   *)
(* a path is a record [dir, name]; the file system is a function from the  *)
(* existing paths to their contents; a value that may be None is a record  *)
(* [type, val].                                                            *)
(***************************************************************************)
EXTENDS Naturals, Sequences, FiniteSets, TLC

VARIABLES
  pc,                 \* "off": no process; "loaded": modules imported; "ready": main.py loop
  environ,            \* os.environ of the running process (the two credential variables)
  OPENAI_API_KEY,     \* config.py constant, read once at import
  OPENROUTER_API_KEY, \* config.py constant, read once at import
  agent,              \* the AwesomeListAgent constructed last
  fs,                 \* the files: existing path |-> content
  calls,              \* number of requests the completion provider has received
  request,            \* the last request the process has sent to the provider
  response,           \* what the provider did with that request
  ret                 \* the last command: its example argument, what it returned or raised

vars == <<pc, environ, OPENAI_API_KEY, OPENROUTER_API_KEY, agent, fs, calls, request,
         response, ret>>

----------------------------------------------------------------------------
(* Bounds of the model.                                                    *)

MaxLen == 2      \* longest text the provider returns
MaxCalls == 2    \* provider requests per behaviour
MaxPieces == 2   \* pieces of a template or of an injected text

----------------------------------------------------------------------------
(* Python values.                                                          *)

None == [type |-> "NoneType", val |-> <<>>]
Str(s) == [type |-> "str", val |-> s]

\* Python truthiness of an Optional[str]: None and "" are falsy.
Truthy(v) == v.type = "str" /\ v.val # <<>>

Min(a, b) == IF a < b THEN a ELSE b

Char == {"a"}
Text == UNION {[1..n -> Char] : n \in 0..MaxLen}

\* Credential values: unset, empty, one set in the environment, one given later.
EnvKeys == {None, Str(<<>>), Str(<<"sk-env">>)}
FlagKeys == {None, Str(<<"sk-flag">>)}
PromptKeys == {Str(<<>>), Str(<<"sk-flag">>)}

----------------------------------------------------------------------------
(* config.py: paths.                                                       *)

Path(d, n) == [dir |-> d, name |-> n]

EXAMPLES_DIR == "development/examples"
DEMO_LIST_DIR == "demo-list"
SYSTEM_PROMPTS_DIR == "development/the-crew/system-prompts"

LIST_CREATOR_PROMPT_PATH == Path(SYSTEM_PROMPTS_DIR, <<"list-creator", ".md">>)
LIST_EDITOR_PROMPT_PATH == Path(SYSTEM_PROMPTS_DIR, <<"list-editor", ".md">>)
LIST_PATH == Path(DEMO_LIST_DIR, <<"awesome-list", ".md">>)
LIST_STARTER == Path(DEMO_LIST_DIR, <<"starter", ".md">>)
LIST_DRAFT == Path(DEMO_LIST_DIR, <<"draft-edit", ".md">>)
DEFAULT_EXAMPLE_PATH == Path(EXAMPLES_DIR, <<"awesome-android", ".md">>)
DEFAULT_MODEL == "gpt-4"

Slots == {LIST_PATH, LIST_STARTER, LIST_DRAFT}

----------------------------------------------------------------------------
(* Deployment data: the prompt templates and the example corpus.           *)

PH_EXAMPLE == <<"{", "{", "e", "x", "a", "m", "p", "l", "e", "}", "}">>
PH_LISTPATH == <<"{", "{", "l", "i", "s", "t", "p", "a", "t", "h", "}", "}">>

CreatorTemplate == <<"C", ":">> \o PH_EXAMPLE \o <<".">>
EditorTemplate == <<"E", ":">> \o PH_LISTPATH \o <<".">>

DeployedFiles ==
  (LIST_CREATOR_PROMPT_PATH :> CreatorTemplate)
  @@ (LIST_EDITOR_PROMPT_PATH :> EditorTemplate)
  @@ (DEFAULT_EXAMPLE_PATH :> <<"x">>)
  @@ (Path(EXAMPLES_DIR, <<"awesome-python", ".md">>) :> <<"y">>)

----------------------------------------------------------------------------
(* Exceptions and results.  NoExc stands for normal completion.            *)

NoExc == [type |-> "none", msg |-> <<>>]
Exc(t, m) == [type |-> t, msg |-> m]

\* Injected storage fault of one command: which write_file_content call
\* (1 or 2) fails, where ("open": makedirs/open raises before the file is
\* touched; "write": f.write raises after open truncated the file), and how
\* many characters reached the file before the failure.
NoFault == [call |-> 0, at |-> "none", keep |-> 0]
Faults ==
  {NoFault}
  \cup [call : {1, 2}, at : {"open"}, keep : {0}]
  \cup [call : {1, 2}, at : {"write"}, keep : 0..(MaxLen - 1)]

\* The faults that can show with a given provider outcome: none when no
\* write is reached, and a failing f.write leaves a proper prefix behind.
FaultsFor(resp) ==
  IF resp.kind # "ok" THEN {NoFault}
  ELSE IF resp.content.type # "str"
  THEN {f \in Faults : f.at # "write" /\ f.call < 2}
  ELSE {f \in Faults : f.at = "write" => f.keep < Len(resp.content.val)}

FaultOf(fault, n) == IF fault.call = n THEN fault ELSE NoFault

\* Outcomes of client.chat.completions.create: it raises, or it returns a
\* response whose message content is a str or (Optional[str]) None.
ProviderError == [kind |-> "error", content |-> None]
Responses ==
  {ProviderError}
  \cup {[kind |-> "ok", content |-> c] : c \in {None} \cup {Str(t) : t \in Text}}

----------------------------------------------------------------------------
(* str.replace(old, new): every non-overlapping occurrence, left to right. *)

\* Mutant of replace: only the first occurrence, as str.replace(old, new, 1).
RECURSIVE replace_first(_, _, _)
replace_first(s, old, new) ==
  IF Len(old) = 0 \/ Len(s) < Len(old) THEN s
  ELSE IF SubSeq(s, 1, Len(old)) = old
  THEN new \o SubSeq(s, Len(old) + 1, Len(s))
  ELSE <<Head(s)>> \o replace_first(Tail(s), old, new)

RECURSIVE replace(_, _, _)
replace(s, old, new) ==
  IF Len(old) = 0 \/ Len(s) < Len(old) THEN s
  ELSE IF SubSeq(s, 1, Len(old)) = old
  THEN new \o replace(SubSeq(s, Len(old) + 1, Len(s)), old, new)
  ELSE <<Head(s)>> \o replace(Tail(s), old, new)

----------------------------------------------------------------------------
(* config.py: read_file_content, write_file_content.                       *)

\* The carriage-return and line-feed characters.
CR == "CR"
LF == "LF"

\* Text-mode files opened without a newline argument: on reading, "\r\n"
\* and a lone "\r" both come back as "\n" (universal newlines); on
\* writing, "\n" goes out as os.linesep, which is "\n" on POSIX.
os_linesep == <<LF>>

RECURSIVE universal_newlines(_)
universal_newlines(s) ==
  IF s = <<>> THEN <<>>
  ELSE IF Head(s) = CR
  THEN <<LF>> \o universal_newlines(IF Len(s) >= 2 /\ s[2] = LF
                                    THEN SubSeq(s, 3, Len(s))
                                    ELSE Tail(s))
  ELSE <<Head(s)>> \o universal_newlines(Tail(s))

\* Mutant of read_file_content: a missing file reads as the empty text.
read_file_content_empty(files, file_path) ==
  IF file_path \in DOMAIN files
  THEN [exc |-> NoExc, value |-> universal_newlines(files[file_path])]
  ELSE [exc |-> NoExc, value |-> <<>>]

read_file_content(files, file_path) ==
  IF file_path \in DOMAIN files
  THEN [exc |-> NoExc, value |-> universal_newlines(files[file_path])]
  ELSE [exc |-> Exc("FileNotFoundError", file_path.name), value |-> <<>>]

\* open(file_path, "w"): creates the file or truncates it to length zero.
Store(files, file_path, s) ==
  [p \in (DOMAIN files) \cup {file_path} |->
     IF p = file_path THEN s ELSE files[p]]

Truncate(files, file_path) == Store(files, file_path, <<>>)

\* What f.write(s) sends to the file.
written(s) == replace(s, <<LF>>, os_linesep)

write_file_content(files, file_path, content, fault) ==
  IF fault.at = "open"
  THEN [fs |-> files, exc |-> Exc("OSError", file_path.name)]
  ELSE IF content.type # "str"
  THEN [fs |-> Truncate(files, file_path),
        exc |-> Exc("TypeError", <<"write() argument must be str">>)]
  ELSE IF fault.at = "write"
  THEN [fs |-> Store(Truncate(files, file_path), file_path,
                     SubSeq(written(content.val), 1,
                            Min(fault.keep, Len(written(content.val))))),
        exc |-> Exc("OSError", file_path.name)]
  ELSE [fs |-> Store(Truncate(files, file_path), file_path, written(content.val)),
        exc |-> NoExc]

----------------------------------------------------------------------------
(* agent.py: AwesomeListAgent.                                             *)

OPENROUTER_BASE_URL == "https://openrouter.ai/api/v1"
OPENAI_BASE_URL == "https://api.openai.com/v1"

NoClient == [api_key |-> None, base_url |-> ""]
NoAgent == [model |-> "", client |-> NoClient,
            creator_prompt |-> <<>>, editor_prompt |-> <<>>]
NoRequest == [model |-> "", system |-> <<>>, user |-> <<>>]

NoKeyMessage == <<"No API key provided for OpenAI or OpenRouter">>

\* Mutant of _get_client: no else branch, the OpenAI client is built with
\* whatever the key is.
_get_client_no_raise(openai_key, openrouter_key) ==
  IF Truthy(openrouter_key)
  THEN [exc |-> NoExc,
        value |-> [api_key |-> openrouter_key, base_url |-> OPENROUTER_BASE_URL]]
  ELSE [exc |-> NoExc,
        value |-> [api_key |-> openai_key, base_url |-> OPENAI_BASE_URL]]

\* Mutant of _get_client: the OpenAI key is looked at first.
_get_client_openai_first(openai_key, openrouter_key) ==
  IF Truthy(openai_key)
  THEN [exc |-> NoExc,
        value |-> [api_key |-> openai_key, base_url |-> OPENAI_BASE_URL]]
  ELSE IF Truthy(openrouter_key)
  THEN [exc |-> NoExc,
        value |-> [api_key |-> openrouter_key, base_url |-> OPENROUTER_BASE_URL]]
  ELSE [exc |-> Exc("ValueError", NoKeyMessage), value |-> NoClient]

\* _get_client reads the two module constants of config.py.
_get_client(openai_key, openrouter_key) ==
  IF Truthy(openrouter_key)
  THEN [exc |-> NoExc,
        value |-> [api_key |-> openrouter_key, base_url |-> OPENROUTER_BASE_URL]]
  ELSE IF Truthy(openai_key)
  THEN [exc |-> NoExc,
        value |-> [api_key |-> openai_key, base_url |-> OPENAI_BASE_URL]]
  ELSE [exc |-> Exc("ValueError", NoKeyMessage), value |-> NoClient]

\* __init__(self, model): model "" stands for None.
AwesomeListAgent(model, files, openai_key, openrouter_key) ==
  LET client == _get_client(openai_key, openrouter_key)
      creator == read_file_content(files, LIST_CREATOR_PROMPT_PATH)
      editor == read_file_content(files, LIST_EDITOR_PROMPT_PATH)
  IN IF client.exc # NoExc THEN [exc |-> client.exc, value |-> NoAgent]
     ELSE IF creator.exc # NoExc THEN [exc |-> creator.exc, value |-> NoAgent]
     ELSE IF editor.exc # NoExc THEN [exc |-> editor.exc, value |-> NoAgent]
     ELSE [exc |-> NoExc,
           value |-> [model |-> IF model # "" THEN model ELSE DEFAULT_MODEL,
                      client |-> client.value,
                      creator_prompt |-> creator.value,
                      editor_prompt |-> editor.value]]

\* The names of the files of the examples directory.
listdir(files, d) == {p.name : p \in {q \in DOMAIN files : q.dir = d}}

endswith(name, suffix) == Len(name) >= 1 /\ name[Len(name)] = suffix

get_available_examples(files) ==
  {replace(file, <<".md">>, <<>>) :
     file \in {f \in listdir(files, EXAMPLES_DIR) : endswith(f, ".md")}}

\* A method that raised before it reached the provider.
Raised(files, e) ==
  [fs |-> files, exc |-> e, value |-> None, calls |-> 0, request |-> NoRequest]

\* A method that raised after its request to the provider.
RaisedAfter(files, e, api) ==
  [fs |-> files, exc |-> e, value |-> None,
   calls |-> api.calls, request |-> api.request]

\* Mutant of chat_completions_create: a failed request is sent once more.
chat_completions_create_retry(self, prompt, user_input, resp) ==
  [exc |-> IF resp.kind = "error" THEN Exc("APIError", <<>>) ELSE NoExc,
   content |-> resp.content,
   calls |-> IF resp.kind = "error" THEN 2 ELSE 1,
   request |-> [model |-> self.model, system |-> prompt, user |-> user_input]]

\* self.client.chat.completions.create(model, messages, temperature): one
\* request; resp is what the provider does with it.
chat_completions_create(self, prompt, user_input, resp) ==
  [exc |-> IF resp.kind = "error" THEN Exc("APIError", <<>>) ELSE NoExc,
   content |-> resp.content,
   calls |-> 1,
   request |-> [model |-> self.model, system |-> prompt, user |-> user_input]]

\* Mutant of example_path_of: an unknown name falls back to the default.
example_path_of_fallback(files, example_name) ==
  IF example_name # <<>>
     /\ Path(EXAMPLES_DIR, example_name \o <<".md">>) \in DOMAIN files
  THEN [exc |-> NoExc, value |-> Path(EXAMPLES_DIR, example_name \o <<".md">>)]
  ELSE [exc |-> NoExc, value |-> DEFAULT_EXAMPLE_PATH]

\* create_list, "Determine the example path".
example_path_of(files, example_name) ==
  IF example_name # <<>>
  THEN LET example_path == Path(EXAMPLES_DIR, example_name \o <<".md">>)
       IN IF example_path \notin DOMAIN files
          THEN [exc |-> Exc("ValueError",
                            <<"Example '">> \o example_name \o <<"' not found">>),
                value |-> example_path]
          ELSE [exc |-> NoExc, value |-> example_path]
  ELSE [exc |-> NoExc, value |-> DEFAULT_EXAMPLE_PATH]

\* Mutant of create_save: the main list file is not written.
create_save_no_list(files, content, fault) ==
  write_file_content(files, LIST_STARTER, content, FaultOf(fault, 1))

\* Mutant of create_save: the starter file is not written.
create_save_no_starter(files, content, fault) ==
  write_file_content(files, LIST_PATH, content, FaultOf(fault, 2))

\* Mutant of create_save: the main list file is written first.
create_save_list_first(files, content, fault) ==
  LET w1 == write_file_content(files, LIST_PATH, content, FaultOf(fault, 1))
      w2 == write_file_content(w1.fs, LIST_STARTER, content, FaultOf(fault, 2))
  IN IF w1.exc # NoExc THEN w1 ELSE w2

\* create_list, "Save the content to the starter file" and to the main list.
create_save(files, content, fault) ==
  LET w1 == write_file_content(files, LIST_STARTER, content, FaultOf(fault, 1))
      w2 == write_file_content(w1.fs, LIST_PATH, content, FaultOf(fault, 2))
  IN IF w1.exc # NoExc THEN w1 ELSE w2

\* Mutant of edit_save: the draft goes to the starter file.
edit_save_to_starter(files, draft_path, content, fault) ==
  LET w1 == write_file_content(files, LIST_STARTER, content, FaultOf(fault, 1))
      w2 == write_file_content(w1.fs, LIST_PATH, content, FaultOf(fault, 2))
  IN IF w1.exc # NoExc THEN w1 ELSE w2

\* Mutant of edit_save: the main list file is not written.
edit_save_no_list(files, draft_path, content, fault) ==
  write_file_content(files, draft_path, content, FaultOf(fault, 1))

\* edit_list, "Save the content to the draft file" and to the main list.
edit_save(files, draft_path, content, fault) ==
  LET w1 == write_file_content(files, draft_path, content, FaultOf(fault, 1))
      w2 == write_file_content(w1.fs, LIST_PATH, content, FaultOf(fault, 2))
  IN IF w1.exc # NoExc THEN w1 ELSE w2

\* Mutant of create_list: the editor's placeholder is looked for.
create_list_wrong_placeholder(self, files, user_input, example_name, resp, fault) ==
  LET example_path == example_path_of(files, example_name)
      example_content == read_file_content(files, example_path.value)
      prompt == replace(self.creator_prompt, PH_LISTPATH, example_content.value)
      api == chat_completions_create(self, prompt, user_input, resp)
      saved == create_save(files, api.content, fault)
  IN IF example_path.exc # NoExc THEN Raised(files, example_path.exc)
     ELSE IF example_content.exc # NoExc THEN Raised(files, example_content.exc)
     ELSE IF api.exc # NoExc THEN RaisedAfter(files, api.exc, api)
     ELSE IF saved.exc # NoExc THEN RaisedAfter(saved.fs, saved.exc, api)
     ELSE [fs |-> saved.fs, exc |-> NoExc, value |-> api.content,
           calls |-> api.calls, request |-> api.request]

\* create_list(self, user_input, example_name): example_name <<>> stands
\* for None (and for "", equally falsy).  resp is what the provider does
\* with the request and fault is what the storage does with the writes.
create_list(self, files, user_input, example_name, resp, fault) ==
  LET example_path == example_path_of(files, example_name)
      example_content == read_file_content(files, example_path.value)
      prompt == replace(self.creator_prompt, PH_EXAMPLE, example_content.value)
      api == chat_completions_create(self, prompt, user_input, resp)
      saved == create_save(files, api.content, fault)
  IN IF example_path.exc # NoExc THEN Raised(files, example_path.exc)
     ELSE IF example_content.exc # NoExc THEN Raised(files, example_content.exc)
     ELSE IF api.exc # NoExc THEN RaisedAfter(files, api.exc, api)
     ELSE IF saved.exc # NoExc THEN RaisedAfter(saved.fs, saved.exc, api)
     ELSE [fs |-> saved.fs, exc |-> NoExc, value |-> api.content,
           calls |-> api.calls, request |-> api.request]

\* edit_list(self, user_input): the callers never pass list_path or
\* draft_path, so both take their defaults.
edit_list(self, files, user_input, resp, fault) ==
  LET list_path == LIST_PATH
      draft_path == LIST_DRAFT
      list_content == read_file_content(files, list_path)
      prompt == replace(self.editor_prompt, PH_LISTPATH, list_content.value)
      api == chat_completions_create(self, prompt, user_input, resp)
      saved == edit_save(files, draft_path, api.content, fault)
  IN IF list_content.exc # NoExc THEN Raised(files, list_content.exc)
     ELSE IF api.exc # NoExc THEN RaisedAfter(files, api.exc, api)
     ELSE IF saved.exc # NoExc THEN RaisedAfter(saved.fs, saved.exc, api)
     ELSE [fs |-> saved.fs, exc |-> NoExc, value |-> api.content,
           calls |-> api.calls, request |-> api.request]

----------------------------------------------------------------------------
(* cli.py and main.py: the commands.                                       *)

Env(openai, openrouter) ==
  [OPENAI_API_KEY |-> openai, OPENROUTER_API_KEY |-> openrouter]

\* "Set API keys if provided": a falsy option leaves the variable alone.
set_keys(env, api_key, openrouter_key) ==
  Env(IF Truthy(api_key) THEN api_key ELSE env.OPENAI_API_KEY,
      IF Truthy(openrouter_key) THEN openrouter_key ELSE env.OPENROUTER_API_KEY)

\* "Check if API keys are set": os.environ.get of either is truthy.
keys_set(env) == Truthy(env.OPENAI_API_KEY) \/ Truthy(env.OPENROUTER_API_KEY)

ApiKeyRequired == Exc("Exit", <<"API Key Required">>)

ExampleNames ==
  {<<>>, <<"awesome-android">>, <<"awesome-python">>, <<"no-such-example">>}
Edits == {<<"Add a section for testing tools">>}

\* The user message both front ends build for a creation.
user_input_of(name, description, style, community) ==
  <<"Create an awesome list named '", name, "' about ", description, ". ",
    "Use a ", style, " style. ">>
  \o (IF community
      THEN <<"Include guidelines for community participation.">>
      ELSE <<>>)

UserInputs ==
  {user_input_of("Awesome Android", "Android development", "minimal", FALSE),
   user_input_of("Awesome Android", "Android development", "visual", TRUE)}

\* cli.py create: options, key check, agent, create_list.  The result holds
\* the environment after the options, the agent (NoAgent when none was
\* constructed) and what the command did.
cli_create(env, files, openai_key, openrouter_key, api_key, openrouter_opt, model, user_input, example, resp, fault) ==
  LET env1 == set_keys(env, api_key, openrouter_opt)
      made == AwesomeListAgent(model, files, openai_key, openrouter_key)
  IN IF ~keys_set(env1)
     THEN [environ |-> env1, agent |-> NoAgent,
           run |-> Raised(files, ApiKeyRequired)]
     ELSE IF made.exc # NoExc
     THEN [environ |-> env1, agent |-> NoAgent, run |-> Raised(files, made.exc)]
     ELSE [environ |-> env1, agent |-> made.value,
           run |-> create_list(made.value, files, user_input, example, resp, fault)]

\* cli.py edit.
cli_edit(env, files, openai_key, openrouter_key, api_key, openrouter_opt, model, edits, resp, fault) ==
  LET env1 == set_keys(env, api_key, openrouter_opt)
      made == AwesomeListAgent(model, files, openai_key, openrouter_key)
  IN IF ~keys_set(env1)
     THEN [environ |-> env1, agent |-> NoAgent,
           run |-> Raised(files, ApiKeyRequired)]
     ELSE IF made.exc # NoExc
     THEN [environ |-> env1, agent |-> NoAgent, run |-> Raised(files, made.exc)]
     ELSE [environ |-> env1, agent |-> made.value,
           run |-> edit_list(made.value, files, edits, resp, fault)]

\* main.py check_api_keys: with no key in the environment the user is asked
\* for one (key_type "1": OpenAI, "2": OpenRouter) and it is put there.
check_api_keys(env, key_type, api_key) ==
  IF keys_set(env) THEN env
  ELSE IF key_type = "1" THEN Env(api_key, env.OPENROUTER_API_KEY)
  ELSE Env(env.OPENAI_API_KEY, api_key)

\* main.py main, up to the menu loop: check_api_keys, then the agent.
main_start(env, files, openai_key, openrouter_key, key_type, api_key) ==
  LET env1 == check_api_keys(env, key_type, api_key)
      made == AwesomeListAgent("", files, openai_key, openrouter_key)
  IN [environ |-> env1, agent |-> made.value, run |-> Raised(files, made.exc)]

----------------------------------------------------------------------------
(* The state machine.                                                      *)

NoRet == [op |-> "none", example |-> <<>>, exc |-> NoExc, value |-> None]
NoResponse == [kind |-> "none", content |-> None]

Init ==
  /\ pc = "off"
  /\ environ = Env(None, None)
  /\ OPENAI_API_KEY = None
  /\ OPENROUTER_API_KEY = None
  /\ agent = NoAgent
  /\ fs = DeployedFiles
  /\ calls = 0
  /\ request = NoRequest
  /\ response = NoResponse
  /\ ret = NoRet

\* What a command leaves behind; example is the example name it was given
\* and resp the provider's answer, had if the command sent a request.
Finish(op, example, out, resp, next) ==
  /\ environ' = out.environ
  /\ agent' = out.agent
  /\ fs' = out.run.fs
  /\ calls' = calls + out.run.calls
  /\ request' = IF out.run.calls > 0 THEN out.run.request ELSE request
  /\ response' = IF out.run.calls > 0 THEN resp ELSE response
  /\ ret' = [op |-> op, example |-> example,
             exc |-> out.run.exc, value |-> out.run.value]
  /\ pc' = next
  /\ UNCHANGED <<OPENAI_API_KEY, OPENROUTER_API_KEY>>

\* A process starts (python main.py / python -m src.cli ...): importing
\* src.config reads the two credentials from the environment.
Launch(openai, openrouter) ==
  /\ pc = "off"
  /\ pc' = "loaded"
  /\ environ' = Env(openai, openrouter)
  /\ OPENAI_API_KEY' = openai
  /\ OPENROUTER_API_KEY' = openrouter
  /\ agent' = NoAgent
  /\ ret' = NoRet
  /\ request' = NoRequest
  /\ response' = NoResponse
  /\ UNCHANGED <<fs, calls>>

CliCreate(api_key, openrouter_opt, user_input, example, resp, fault) ==
  /\ pc = "loaded"
  /\ calls < MaxCalls
  /\ Finish("create", example,
            cli_create(environ, fs, OPENAI_API_KEY, OPENROUTER_API_KEY,
                       api_key, openrouter_opt, "", user_input, example, resp, fault),
            resp, "off")

CliEdit(api_key, openrouter_opt, edits, resp, fault) ==
  /\ pc = "loaded"
  /\ calls < MaxCalls
  /\ Finish("edit", <<>>,
            cli_edit(environ, fs, OPENAI_API_KEY, OPENROUTER_API_KEY,
                     api_key, openrouter_opt, "", edits, resp, fault),
            resp, "off")

MainStart(key_type, api_key) ==
  /\ pc = "loaded"
  /\ LET out == main_start(environ, fs, OPENAI_API_KEY, OPENROUTER_API_KEY,
                           key_type, api_key)
     IN Finish("start", <<>>, out, NoResponse,
               IF out.run.exc = NoExc THEN "ready" ELSE "off")

\* Menu choice 1: create_awesome_list; an exception ends the process, and
\* so does answering "n" to "perform another action?".
MainCreate(user_input, example, resp, fault, again) ==
  /\ pc = "ready"
  /\ calls < MaxCalls
  /\ LET run == create_list(agent, fs, user_input, example, resp, fault)
     IN Finish("create", example, [environ |-> environ, agent |-> agent, run |-> run],
               resp, IF run.exc = NoExc /\ again THEN "ready" ELSE "off")

\* Menu choice 2: edit_awesome_list.
MainEdit(edits, resp, fault, again) ==
  /\ pc = "ready"
  /\ calls < MaxCalls
  /\ LET run == edit_list(agent, fs, edits, resp, fault)
     IN Finish("edit", <<>>, [environ |-> environ, agent |-> agent, run |-> run],
               resp, IF run.exc = NoExc /\ again THEN "ready" ELSE "off")

\* Menu choice 4, or choice 3 (list the examples) and no further action.
MainExit ==
  /\ pc = "ready"
  /\ pc' = "off"
  /\ ret' = [op |-> "exit", example |-> <<>>, exc |-> NoExc, value |-> None]
  /\ UNCHANGED <<environ, OPENAI_API_KEY, OPENROUTER_API_KEY, agent, fs,
                 calls, request, response>>

Next ==
  \/ \E openai, openrouter \in EnvKeys : Launch(openai, openrouter)
  \/ \E api_key, openrouter_opt \in FlagKeys, user_input \in UserInputs,
        example \in ExampleNames, resp \in Responses :
       \E fault \in FaultsFor(resp) :
       CliCreate(api_key, openrouter_opt, user_input, example, resp, fault)
  \/ \E api_key, openrouter_opt \in FlagKeys, edits \in Edits,
        resp \in Responses :
       \E fault \in FaultsFor(resp) :
       CliEdit(api_key, openrouter_opt, edits, resp, fault)
  \/ \E key_type \in {"1", "2"}, api_key \in PromptKeys :
       MainStart(key_type, api_key)
  \/ \E user_input \in UserInputs,
        example \in get_available_examples(fs) \cup {<<>>},
        resp \in Responses, again \in BOOLEAN :
       \E fault \in FaultsFor(resp) :
       MainCreate(user_input, example, resp, fault, again)
  \/ \E edits \in Edits, resp \in Responses, again \in BOOLEAN :
       \E fault \in FaultsFor(resp) :
       MainEdit(edits, resp, fault, again)
  \/ MainExit

Spec == Init /\ [][Next]_vars

----------------------------------------------------------------------------
(* Prompt assembly on any deployment: the two templates hold their         *)
(* placeholder any number of times, and the example document and the       *)
(* existing list may hold the placeholder text themselves.                 *)

\* A text as a row of pieces, each a plain character or the placeholder.
Shapes == UNION {[1..n -> {"text", "placeholder"}] : n \in 0..MaxPieces}

RECURSIVE Fill(_, _, _)
Fill(shape, text, placeholder) ==
  IF shape = <<>> THEN <<>>
  ELSE (IF Head(shape) = "placeholder" THEN placeholder ELSE text)
       \o Fill(Tail(shape), text, placeholder)

PromptFiles(template, injected) ==
  (LIST_CREATOR_PROMPT_PATH :> Fill(template, <<"C">>, PH_EXAMPLE))
  @@ (LIST_EDITOR_PROMPT_PATH :> Fill(template, <<"E">>, PH_LISTPATH))
  @@ (DEFAULT_EXAMPLE_PATH :> Fill(injected, <<"x">>, PH_EXAMPLE))
  @@ (Path(EXAMPLES_DIR, <<"awesome-python", ".md">>) :> <<"y">>)
  @@ (LIST_PATH :> Fill(injected, <<"l">>, PH_LISTPATH))

PromptResponses == {ProviderError, [kind |-> "ok", content |-> Str(<<"a">>)]}

\* python main.py at its menu, the agent made with a key of the environment.
AtMenu(files) ==
  /\ pc = "ready"
  /\ environ = Env(Str(<<"sk-env">>), None)
  /\ OPENAI_API_KEY = Str(<<"sk-env">>)
  /\ OPENROUTER_API_KEY = None
  /\ fs = files
  /\ agent = AwesomeListAgent("", files, Str(<<"sk-env">>), None).value
  /\ calls = 0
  /\ request = NoRequest
  /\ response = NoResponse
  /\ ret = NoRet

InitPrompt == \E template, injected \in Shapes : AtMenu(PromptFiles(template, injected))

NextPrompt ==
  \/ \E user_input \in UserInputs,
        example \in get_available_examples(fs) \cup {<<>>},
        resp \in PromptResponses, again \in BOOLEAN :
       MainCreate(user_input, example, resp, NoFault, again)
  \/ \E edits \in Edits, resp \in PromptResponses, again \in BOOLEAN :
       MainEdit(edits, resp, NoFault, again)

SpecPrompt == InitPrompt /\ [][NextPrompt]_vars

----------------------------------------------------------------------------
(* The store on its own: write_file_content and read_file_content called   *)
(* with any text, carriage returns and line feeds included.                *)

StoreTexts == UNION {[1..n -> {"a", CR, LF}] : n \in 0..MaxLen}
StoreSlots == {LIST_PATH, LIST_DRAFT}

InitStore ==
  /\ pc = "loaded"
  /\ environ = Env(None, None)
  /\ OPENAI_API_KEY = None
  /\ OPENROUTER_API_KEY = None
  /\ agent = NoAgent
  /\ fs = DeployedFiles
  /\ calls = 0
  /\ request = NoRequest
  /\ response = NoResponse
  /\ ret = NoRet

\* ret names the call, the file (in its example field), and the text
\* written or read.
StoreWrite(file_path, content) ==
  /\ pc = "loaded"
  /\ LET w == write_file_content(fs, file_path, Str(content), NoFault)
     IN /\ fs' = w.fs
        /\ ret' = [op |-> "write", example |-> file_path.name,
                   exc |-> w.exc, value |-> Str(content)]
  /\ UNCHANGED <<pc, environ, OPENAI_API_KEY, OPENROUTER_API_KEY, agent,
                 calls, request, response>>

StoreRead(file_path) ==
  /\ pc = "loaded"
  /\ LET r == read_file_content(fs, file_path)
     IN ret' = [op |-> "read", example |-> file_path.name, exc |-> r.exc,
                value |-> IF r.exc = NoExc THEN Str(r.value) ELSE None]
  /\ UNCHANGED <<pc, environ, OPENAI_API_KEY, OPENROUTER_API_KEY, agent, fs,
                 calls, request, response>>

NextStore ==
  \/ \E file_path \in StoreSlots, content \in StoreTexts :
       StoreWrite(file_path, content)
  \/ \E file_path \in StoreSlots : StoreRead(file_path)

SpecStore == InitStore /\ [][NextStore]_vars

----------------------------------------------------------------------------
(* The examples directory with any file names in it.                       *)

ExampleFiles ==
  {<<"awesome-python", ".md">>, <<"notes", ".md", ".md">>,
   <<"v1", ".md", "-old", ".md">>, <<"draft", ".md", ".bak">>, <<".md">>}

ExamplesDirs == {{DEFAULT_EXAMPLE_PATH.name} \cup names : names \in SUBSET ExampleFiles}

ExamplesDirFiles(names) ==
  (LIST_CREATOR_PROMPT_PATH :> CreatorTemplate)
  @@ (LIST_EDITOR_PROMPT_PATH :> EditorTemplate)
  @@ [p \in {Path(EXAMPLES_DIR, n) : n \in names} |-> <<"x">>]

InitExamples == \E names \in ExamplesDirs : AtMenu(ExamplesDirFiles(names))

NextExamples ==
  \E user_input \in UserInputs,
     example \in get_available_examples(fs) \cup {<<>>},
     resp \in PromptResponses, again \in BOOLEAN :
    MainCreate(user_input, example, resp, NoFault, again)

SpecExamples == InitExamples /\ [][NextExamples]_vars

----------------------------------------------------------------------------
(* Vocabulary of the properties.                                           *)

\* The content of a slot as a Python value: None when the file is absent.
Slot(files, p) == IF p \in DOMAIN files THEN Str(files[p]) ELSE None

\* A step that runs a create (an edit): Launch leaves pc = "off" behind it,
\* and every other command names itself in ret.
CreateStep == pc # "off" /\ ret'.op = "create"
EditStep == pc # "off" /\ ret'.op = "edit"

\* The step sent a request and the provider returned text for it.
GotText ==
  calls' > calls /\ response'.kind = "ok" /\ response'.content.type = "str"

\* sub occurs in s.
Occurs(sub, s) ==
  \E i \in 1..(Len(s) - Len(sub) + 1) : SubSeq(s, i, i + Len(sub) - 1) = sub

\* The parts of s between the occurrences of sep, and these parts with x
\* between them.
RECURSIVE split(_, _)
split(s, sep) ==
  IF ~Occurs(sep, s) THEN <<s>>
  ELSE LET i == CHOOSE i \in 1..Len(s) :
                  /\ SubSeq(s, i, i + Len(sep) - 1) = sep
                  /\ \A j \in 1..(i - 1) : SubSeq(s, j, j + Len(sep) - 1) # sep
       IN <<SubSeq(s, 1, i - 1)>> \o split(SubSeq(s, i + Len(sep), Len(s)), sep)

RECURSIVE join(_, _)
join(parts, x) ==
  IF Len(parts) = 1 THEN parts[1] ELSE parts[1] \o x \o join(Tail(parts), x)

\* No part of the template around its placeholders holds a brace.
PlainAround(template, placeholder) ==
  \A k \in 1..Len(split(template, placeholder)) :
    \A i \in 1..Len(split(template, placeholder)[k]) :
      split(template, placeholder)[k][i] \notin {"{", "}"}

\* The example document a create was given, as it was read.
ExampleRead ==
  read_file_content(fs, IF ret'.example = <<>> THEN DEFAULT_EXAMPLE_PATH
                        ELSE Path(EXAMPLES_DIR, ret'.example \o <<".md">>)).value

\* The current list an edit was given, as it was read.
ListRead == read_file_content(fs, LIST_PATH).value

NotFoundOrProviderError(e) ==
  e.type \in {"ValueError", "FileNotFoundError", "APIError"}

ConfigurationError(e) ==
  e = ApiKeyRequired \/ e = Exc("ValueError", NoKeyMessage)

----------------------------------------------------------------------------
(* C1: a successful create or edit leaves the current-list slot holding    *)
(* exactly the text it returned, and a create or edit that fails with a    *)
(* missing example, a missing list or a provider error leaves the          *)
(* current-list slot as it was; so over any run of such operations the     *)
(* slot holds the output of the most recent successful one.                *)
C1_CurrentListIsLastSuccess ==
  [][(CreateStep \/ EditStep) =>
       /\ ret'.exc = NoExc =>
            ret'.value.type = "str" /\ Slot(fs', LIST_PATH) = ret'.value
       /\ NotFoundOrProviderError(ret'.exc) =>
            Slot(fs', LIST_PATH) = Slot(fs, LIST_PATH)]_vars

\* A provider error hit an edit and the list still holds the created text.
C1_Witness ==
  /\ ret.op = "edit"
  /\ ret.exc.type = "APIError"
  /\ Slot(fs, LIST_PATH) = Str(<<"a">>)
  /\ Slot(fs, LIST_STARTER) = Str(<<"a">>)

----------------------------------------------------------------------------
(* C2, as amended: after a successful create the starter slot equals the   *)
(* raw text the create returned, after a successful edit the draft-edit    *)
(* slot equals the raw text the edit returned, and an edit (successful or  *)
(* not) never changes the starter slot and a create never changes the      *)
(* draft-edit slot.                                                        *)
C2_SnapshotsFollowTheirKind ==
  [][/\ CreateStep =>
          /\ Slot(fs', LIST_DRAFT) = Slot(fs, LIST_DRAFT)
          /\ ret'.exc = NoExc =>
               /\ ret'.value = response'.content
               /\ Slot(fs', LIST_STARTER) = ret'.value
     /\ EditStep =>
          /\ Slot(fs', LIST_STARTER) = Slot(fs, LIST_STARTER)
          /\ ret'.exc = NoExc =>
               /\ ret'.value = response'.content
               /\ Slot(fs', LIST_DRAFT) = ret'.value]_vars

\* The starter still holds the creation's output after a later edit that
\* returned another text.
C2_Witness ==
  /\ ret.op = "edit"
  /\ ret.exc = NoExc
  /\ Slot(fs, LIST_STARTER) = Str(<<"a">>)
  /\ Slot(fs, LIST_DRAFT) = Str(<<"a", "a">>)
  /\ Slot(fs, LIST_PATH) = Str(<<"a", "a">>)

\* C2 as stated: after any create for which the provider returned text the
\* starter slot equals that text, and after any such edit the draft-edit
\* slot does.
C2_Original ==
  [][/\ (CreateStep /\ GotText) => Slot(fs', LIST_STARTER) = response'.content
     /\ (EditStep /\ GotText) => Slot(fs', LIST_DRAFT) = response'.content]_vars

----------------------------------------------------------------------------
(* C3: a slot write is all-or-nothing: after every step each slot holds    *)
(* its complete previous content or the complete text the provider         *)
(* returned in that step.                                                  *)
C3_AllOrNothing ==
  [][\A p \in Slots :
       \/ Slot(fs', p) = Slot(fs, p)
       \/ GotText /\ Slot(fs', p) = response'.content]_vars

----------------------------------------------------------------------------
(* C4: a successful create sends exactly one request, made of the creator  *)
(* prompt with an example document substituted and of the user message,    *)
(* and afterwards the starter slot and the current-list slot both equal    *)
(* the text the provider returned, which is the value returned.            *)
C4_SuccessfulCreate ==
  [][(CreateStep /\ ret'.exc = NoExc) =>
       /\ calls' = calls + 1
       /\ request'.user \in UserInputs
       /\ \E p \in DOMAIN fs :
            /\ p.dir = EXAMPLES_DIR
            /\ request'.system = <<"C", ":">> \o fs[p] \o <<".">>
       /\ response'.kind = "ok"
       /\ ret'.value = response'.content
       /\ ret'.value.type = "str"
       /\ Slot(fs', LIST_STARTER) = ret'.value
       /\ Slot(fs', LIST_PATH) = ret'.value]_vars

\* A second create succeeded and replaced both slots.
C4_Witness ==
  /\ ret.op = "create"
  /\ ret.exc = NoExc
  /\ ret.value = Str(<<"a", "a">>)
  /\ calls = 2
  /\ Slot(fs, LIST_STARTER) = Str(<<"a", "a">>)
  /\ Slot(fs, LIST_PATH) = Str(<<"a", "a">>)

----------------------------------------------------------------------------
(* C5: a successful edit sends exactly one request, and afterwards the     *)
(* draft-edit slot and the current-list slot both equal the text the       *)
(* provider returned, which is the value returned.                         *)
C5_SuccessfulEdit ==
  [][(EditStep /\ ret'.exc = NoExc) =>
       /\ calls' = calls + 1
       /\ request'.user \in Edits
       /\ request'.system = <<"E", ":">> \o fs[LIST_PATH] \o <<".">>
       /\ response'.kind = "ok"
       /\ ret'.value = response'.content
       /\ ret'.value.type = "str"
       /\ Slot(fs', LIST_DRAFT) = ret'.value
       /\ Slot(fs', LIST_PATH) = ret'.value]_vars

\* An edit of a created list succeeded.
C5_Witness ==
  /\ ret.op = "edit"
  /\ ret.exc = NoExc
  /\ ret.value = Str(<<"a">>)
  /\ calls = 2
  /\ Slot(fs, LIST_STARTER) = Str(<<"a", "a">>)
  /\ Slot(fs, LIST_DRAFT) = Str(<<"a">>)
  /\ Slot(fs, LIST_PATH) = Str(<<"a">>)

----------------------------------------------------------------------------
(* C6: when neither credential value of the configuration (the two        *)
(* constants the agent selects its client by) is present, a create or an   *)
(* edit fails with a configuration error, sends no request to the provider *)
(* and writes no file.                                                     *)
C6_NoCredentialFailsFast ==
  [][((CreateStep \/ EditStep)
        /\ ~Truthy(OPENAI_API_KEY) /\ ~Truthy(OPENROUTER_API_KEY)) =>
       /\ ConfigurationError(ret'.exc)
       /\ calls' = calls
       /\ request' = request
       /\ fs' = fs]_vars

\* An edit of an existing list was refused for want of a credential, with
\* no request sent by the process.
C6_Witness ==
  /\ ret.op = "edit"
  /\ ret.exc = ApiKeyRequired
  /\ ~keys_set(environ)
  /\ request = NoRequest
  /\ LIST_PATH \in DOMAIN fs

----------------------------------------------------------------------------
(* C7: credential overrides take precedence: once a command has put a      *)
(* credential into the environment (option or key prompt), the agent it    *)
(* constructs has the client that the credentials of the environment       *)
(* select.                                                                 *)
C7_OverridesTakePrecedence ==
  (ret.op \in {"create", "edit", "start"} /\ keys_set(environ)) =>
    /\ agent # NoAgent
    /\ agent.client =
         _get_client(environ.OPENAI_API_KEY, environ.OPENROUTER_API_KEY).value

----------------------------------------------------------------------------
(* C8: a create that names an example with no file in the examples         *)
(* directory raises the not-found error naming that example, sends no      *)
(* request and writes no file.                                             *)
C8_MissingExample ==
  [][(CreateStep /\ agent' # NoAgent /\ ret'.example # <<>>
        /\ Path(EXAMPLES_DIR, ret'.example \o <<".md">>) \notin DOMAIN fs) =>
       /\ ret'.exc =
            Exc("ValueError", <<"Example '">> \o ret'.example \o <<"' not found">>)
       /\ calls' = calls
       /\ fs' = fs]_vars

\* The create named no-such-example while the slots held an earlier list.
C8_Witness ==
  /\ ret.op = "create"
  /\ ret.example = <<"no-such-example">>
  /\ ret.exc = Exc("ValueError", <<"Example '", "no-such-example", "' not found">>)
  /\ calls = 1
  /\ Slot(fs, LIST_STARTER) = Str(<<"a">>)
  /\ Slot(fs, LIST_PATH) = Str(<<"a">>)

----------------------------------------------------------------------------
(* C9: an edit run while the current-list file does not exist raises the   *)
(* file-not-found error, sends no request and creates or writes no file.   *)
C9_EditWithoutList ==
  [][(EditStep /\ agent' # NoAgent /\ LIST_PATH \notin DOMAIN fs) =>
       /\ ret'.exc = Exc("FileNotFoundError", LIST_PATH.name)
       /\ calls' = calls
       /\ fs' = fs]_vars

\* The edit found no list, and no slot exists afterwards.
C9_Witness ==
  /\ ret.op = "edit"
  /\ ret.exc.type = "FileNotFoundError"
  /\ Slots \cap DOMAIN fs = {}
  /\ calls = 0

----------------------------------------------------------------------------
(* C10: when the provider call of a create or an edit fails, that one      *)
(* request is the only one sent, the error reaches the caller and no file  *)
(* is written.                                                             *)
C10_ProviderErrorNoRetryNoWrite ==
  [][((CreateStep \/ EditStep) /\ calls' > calls /\ response'.kind = "error") =>
       /\ calls' = calls + 1
       /\ ret'.exc.type = "APIError"
       /\ fs' = fs]_vars

\* The provider failed a create while the slots held an earlier list.
C10_Witness ==
  /\ ret.op = "create"
  /\ ret.exc.type = "APIError"
  /\ response.kind = "error"
  /\ calls = 2
  /\ Slot(fs, LIST_STARTER) = Str(<<"a", "a">>)
  /\ Slot(fs, LIST_PATH) = Str(<<"a", "a">>)

----------------------------------------------------------------------------
(* C11: with a template that holds its placeholder amid brace-free text,   *)
(* the system prompt of a create contains the example document exactly as  *)
(* it was read, and the system prompt of an edit contains the current list *)
(* exactly as it was read; the prompt holds a literal placeholder token    *)
(* ({{example}} for create, {{listpath}} for edit) exactly when the        *)
(* injected text itself holds one.                                         *)

----------------------------------------------------------------------------
(* C12: round trip: for every text X, carriage returns included, reading   *)
(* a file right after X was written to it returns exactly X.               *)

C12_RoundTrip ==
  [][(/\ ret.op = "write"
      /\ ret.exc = NoExc
      /\ ret'.op = "read"
      /\ ret'.example = ret.example) =>
       /\ ret'.exc = NoExc
       /\ ret'.value = ret.value]_vars

----------------------------------------------------------------------------
(* C13: the substitution replaces every occurrence of the placeholder in   *)
(* the template, one if it holds one and all if it holds more, and with    *)
(* no placeholder in the template it raises nothing and the prompt is the  *)
(* template unchanged.                                                     *)

\* The inputs of the step were found, so the step came to its prompt.
InputsFound == ret'.exc.type \notin {"ValueError", "FileNotFoundError"}

\* The template with its first placeholder alone replaced by x.
ReplacedOnce(template, placeholder, x) ==
  LET parts == split(template, placeholder)
  IN IF Len(parts) = 1 THEN template
     ELSE parts[1] \o x
          \o SubSeq(template, Len(parts[1]) + Len(placeholder) + 1, Len(template))

C13_EveryOccurrenceReplaced ==
  [][/\ (CreateStep /\ InputsFound) =>
          /\ calls' = calls + 1
          /\ request'.system =
               join(split(agent'.creator_prompt, PH_EXAMPLE), ExampleRead)
     /\ (EditStep /\ InputsFound) =>
          /\ calls' = calls + 1
          /\ request'.system =
               join(split(agent'.editor_prompt, PH_LISTPATH), ListRead)]_vars

\* A create whose template is the placeholder twice sent the example text
\* "x" twice.
C13_Witness ==
  /\ ret.op = "create"
  /\ ret.example = <<>>
  /\ calls = 1
  /\ agent.creator_prompt = PH_EXAMPLE \o PH_EXAMPLE
  /\ fs[DEFAULT_EXAMPLE_PATH] = <<"x">>
  /\ request.system = <<"x", "x">>

\* C13 as the specification states it: one occurrence is replaced.
C13_Original ==
  [][/\ (CreateStep /\ InputsFound) =>
          /\ calls' = calls + 1
          /\ request'.system =
               ReplacedOnce(agent'.creator_prompt, PH_EXAMPLE, ExampleRead)
     /\ (EditStep /\ InputsFound) =>
          /\ calls' = calls + 1
          /\ request'.system =
               ReplacedOnce(agent'.editor_prompt, PH_LISTPATH, ListRead)]_vars

----------------------------------------------------------------------------
(* C14: in a create or an edit whose first write (the starter, the draft)  *)
(* fails, neither the snapshot file nor the list file changes; when the    *)
(* second write (the list) fails after the first succeeded, the snapshot   *)
(* file holds the full new text and the list file still holds its full     *)
(* previous content.                                                       *)

\* The write to file p failed: an OSError names its file, and the
\* TypeError of f.write(None) comes from the first write.
WriteFailed(p) ==
  \/ ret'.exc = Exc("OSError", p.name)
  \/ p # LIST_PATH /\ ret'.exc.type = "TypeError"

C14_OnlyBetweenTheWrites ==
  [][/\ (CreateStep /\ WriteFailed(LIST_STARTER)) =>
          /\ Slot(fs', LIST_STARTER) = Slot(fs, LIST_STARTER)
          /\ Slot(fs', LIST_PATH) = Slot(fs, LIST_PATH)
     /\ (EditStep /\ WriteFailed(LIST_DRAFT)) =>
          /\ Slot(fs', LIST_DRAFT) = Slot(fs, LIST_DRAFT)
          /\ Slot(fs', LIST_PATH) = Slot(fs, LIST_PATH)
     /\ (CreateStep /\ WriteFailed(LIST_PATH)) =>
          /\ Slot(fs', LIST_STARTER) = response'.content
          /\ Slot(fs', LIST_PATH) = Slot(fs, LIST_PATH)
     /\ (EditStep /\ WriteFailed(LIST_PATH)) =>
          /\ Slot(fs', LIST_DRAFT) = response'.content
          /\ Slot(fs', LIST_PATH) = Slot(fs, LIST_PATH)]_vars

----------------------------------------------------------------------------
(* C15: the snapshot file is written before the list file: whenever a      *)
(* create (an edit) has touched the list file or has returned, the starter *)
(* file (the draft file) holds the full text the provider returned for it; *)
(* the current list is never ahead of its snapshot.                        *)

\* The step came to its second write.
ListWritten == Slot(fs', LIST_PATH) # Slot(fs, LIST_PATH) \/ ret'.exc = NoExc

C15_SnapshotBeforeList ==
  [][/\ (CreateStep /\ calls' > calls /\ ListWritten) =>
          /\ GotText
          /\ Slot(fs', LIST_STARTER) = response'.content
     /\ (EditStep /\ calls' > calls /\ ListWritten) =>
          /\ GotText
          /\ Slot(fs', LIST_DRAFT) = response'.content]_vars

\* The write of the list failed part way in a create that returned "aa":
\* the list holds "a" and the starter the whole text.
C15_Witness ==
  /\ ret.op = "create"
  /\ ret.exc = Exc("OSError", LIST_PATH.name)
  /\ response.content = Str(<<"a", "a">>)
  /\ Slot(fs, LIST_PATH) = Str(<<"a">>)
  /\ Slot(fs, LIST_STARTER) = Str(<<"a", "a">>)

----------------------------------------------------------------------------
(* C16: every name that get_available_examples returns, whatever the file  *)
(* names of the examples directory, is accepted by create_list: it names   *)
(* an existing example file and no example-not-found error is raised.      *)

ExampleNotFound(example_name) ==
  Exc("ValueError", <<"Example '">> \o example_name \o <<"' not found">>)

C16_ListedExamplesAccepted ==
  [][(CreateStep /\ ret'.example \in get_available_examples(fs)) =>
       /\ Path(EXAMPLES_DIR, ret'.example \o <<".md">>) \in DOMAIN fs
       /\ ret'.exc # ExampleNotFound(ret'.example)]_vars

----------------------------------------------------------------------------
(* C17: the provider is a function of the two credentials of config.py:    *)
(* an agent that was made talks to the OpenRouter endpoint with the        *)
(* OpenRouter key whenever that key is present, the OpenAI key being       *)
(* present or not, and to the OpenAI endpoint with the OpenAI key only     *)
(* when the OpenAI key is present and the OpenRouter key is absent; the    *)
(* empty string counts as absent.                                          *)

Present(key) == key.type = "str" /\ key.val # <<>>

C17_ProviderSelection ==
  agent # NoAgent =>
    /\ Present(OPENROUTER_API_KEY) =>
         agent.client = [api_key |-> OPENROUTER_API_KEY,
                         base_url |-> OPENROUTER_BASE_URL]
    /\ ~Present(OPENROUTER_API_KEY) =>
         /\ Present(OPENAI_API_KEY)
         /\ agent.client = [api_key |-> OPENAI_API_KEY,
                            base_url |-> OPENAI_BASE_URL]

\* Both keys present: the agent talks to OpenRouter.
C17_Witness ==
  /\ Present(OPENAI_API_KEY)
  /\ Present(OPENROUTER_API_KEY)
  /\ agent.client.base_url = OPENROUTER_BASE_URL

====
